---- MODULE Spec2Model ----
(***************************************************************************)
(* Backtesting core of the AI hedge fund: the trading simulator            *)
(* (backtesting/simulator.py), the order validators of the portfolio       *)
(* manager (agents/portfolio_manager.py), the historical window and the    *)
(* calendar of the data loader (backtesting/data_loader.py), the loop of   *)
(* run_backtest (orchestrator.py) and the performance metrics              *)
(* (backtesting/metrics.py).                                               *)
(*                                                                         *)
(* Money is modelled in whole currency units with exact rational           *)
(* arithmetic: the float factors 1.01, 0.3 and 0.1 of the source are kept  *)
(* as the percentages 101, 30 and 10 and every comparison is              *)
(* cross-multiplied by 100.  TradeOrder.timestamp / reasoning are not      *)
(* modelled (no code of the core reads them).                              *)
(***************************************************************************)
EXTENDS Integers, Sequences, FiniteSets, TLC

\* ---------------------------------------------------------------- bounds
MaxTrades == 3          \* longest trade log explored
MaxSnapshots == 1       \* longest portfolio history explored
MaxBatch == 2           \* longest list handed to one execute_trades call
MaxDecided == 2         \* longest trade log explored when orders come from decide_trades
MaxCash == 24           \* validator inputs: cash in 0..MaxCash
MaxOther == 12          \* validator inputs: total_value - cash in 0..MaxOther
MaxHeld == 3            \* validator inputs: shares already held in 0..MaxHeld
MaxPrice == 4           \* validator inputs: price in 1..MaxPrice
MaxQty == 7             \* validator inputs: desired quantity in 0..MaxQty
MaxDate == 2            \* data loader: bar and query dates are 1..MaxDate
MaxBars == 2            \* data loader: bars loaded per symbol
MaxLookback == 2        \* data loader: lookback_days in 0..MaxLookback
MaxSeries == 3          \* metrics: value series of up to MaxSeries points
MaxReturns == 7         \* metrics: returns arrays of up to MaxReturns entries
SignificandBits == 4    \* metrics: significant bits a float keeps (np.float64: 53)

\* ------------------------------------------------------ program constants
FEE_BUFFER_PCT == 101           \* the literal 1.01 of _validate_buy_order
MAX_POSITION_SIZE_PCT == 30     \* Config.MAX_POSITION_SIZE = 0.3
CASH_RESERVE_PCT == 10          \* Config.CASH_RESERVE = 0.1
PRICE_LOOKBACK == 1             \* lookback_days of _get_current_prices
RISK_FREE_RATE_PCT == 2         \* Config.RISK_FREE_RATE = 0.02
TRADING_DAYS_PER_YEAR == 252    \* Config.TRADING_DAYS_PER_YEAR
ANALYST_LOOKBACK == 200         \* lookback_days of _gather_analyst_signals

\* ----------------------------------------------------------- input sets
Symbols == {"X", "Y"}
\* self.symbols, in input order
SymbolList == <<"X", "Y">>
InitialCapitals == {0, 16000}
Prices == {50, 80}
Lots == {<<100, 50>>, <<200, 80>>}      \* <<quantity, price>> of the orders explored
SignalType == {"BUY", "SELL", "HOLD"}
Values == {0, 90, 100, 110}     \* portfolio values (in thousands) the metrics are explored on

\* A TradeOrder as its __post_init__ accepts it: never HOLD, quantity and
\* price positive.
TradeOrder ==
    {[symbol |-> s, action |-> a, quantity |-> l[1], price |-> l[2]] :
        s \in Symbols, a \in {"BUY", "SELL"}, l \in Lots}

Batches == UNION {[1..n -> TradeOrder] : n \in 1..MaxBatch}

\* Partial price maps handed to update_portfolio_value; the k-th call is
\* made with date k, as a caller stepping through its calendar does.
PriceMaps == UNION {[S -> Prices] : S \in SUBSET Symbols}

VARIABLES
    initial_capital,    \* TradingSimulator.initial_capital
    cash,               \* TradingSimulator.cash
    positions,          \* TradingSimulator.positions: a dict, DOMAIN = its keys
    trade_history,      \* TradingSimulator.trade_history
    portfolio_history,  \* TradingSimulator.portfolio_history
    executed,           \* per log entry: TRUE for the "✓" print, FALSE for "✗ SKIP"
    pending,            \* trades the running execute_trades loop has yet to process
    request,            \* arguments of the validator call in progress
    validated,          \* its result, -1 while there is none
    price_data,         \* DataLoader.price_data
    window,             \* the last get_price_data call and the bars it returned
    current_prices,     \* the last _get_current_prices call and its price map
    financial_data,     \* DataLoader.financial_data
    provider,           \* what the data provider answered to load_all_data
    benchmark_data,     \* DataLoader.benchmark_data
    trading_dates,      \* run_backtest: the calendar get_trading_dates returned
    pc,                 \* run_backtest: where the run stands
    day,                \* run_backtest: index into trading_dates of the date in process
    sym,                \* run_backtest: index into self.symbols of the symbol to process
    report,             \* run_backtest: what the run returned, NoReport while it has not
    events,             \* run_backtest: per date, the symbols analysed and the marks, in order
    series,             \* the value series of the metric call in progress
    returns,            \* the returns array of the metric call in progress
    metric              \* its result

simVars == <<initial_capital, cash, positions, trade_history,
             portfolio_history, executed, pending>>

valVars == <<request, validated>>

dataVars == <<price_data, window, current_prices, financial_data, provider>>

runVars == <<benchmark_data, trading_dates, pc, day, sym, report, events>>

metVars == <<series, returns, metric>>

vars == <<simVars, valVars, dataVars, runVars, metVars>>

\* ------------------------------------------------------------- dict helpers
\* dict.get(key, default)
Get(d, k, default) == IF k \in DOMAIN d THEN d[k] ELSE default

\* d[k] = v (insert or overwrite)
Put(d, k, v) == [x \in (DOMAIN d) \cup {k} |-> IF x = k THEN v ELSE d[x]]

\* del d[k]
Del(d, k) == [x \in (DOMAIN d) \ {k} |-> d[x]]

EmptyDict == [x \in {} |-> 0]

Max(a, b) == IF a >= b THEN a ELSE b
Min(a, b) == IF a <= b THEN a ELSE b

\* int(n / d) for d > 0: Python's int() truncates towards zero.
Trunc(n, d) == IF n >= 0 THEN n \div d ELSE -((-n) \div d)

\* --------------------------------------------------------- TradingSimulator
\* __init__
SimInit(capital) ==
    /\ initial_capital = capital
    /\ cash = capital
    /\ positions = EmptyDict
    /\ trade_history = <<>>
    /\ portfolio_history = <<>>
    /\ executed = <<>>
    /\ pending = <<>>

NoReport == [kind |-> "none"]

\* Before run_backtest is called.
RunInit ==
    /\ benchmark_data = <<>>
    /\ trading_dates = <<>>
    /\ pc = "idle"
    /\ day = 0
    /\ sym = 0
    /\ report = NoReport
    /\ events = <<>>

\* No metric call in progress.
MetInit == series = <<>> /\ returns = <<>> /\ metric = [kind |-> "none"]

\* No validator call in progress.
NoRequest ==
    [symbol |-> "-", action |-> "HOLD", quantity |-> 0, price |-> 0,
     portfolio_state |-> [cash |-> 0, positions |-> EmptyDict,
                          total_value |-> 0, date |-> 0]]

ValInit == request = NoRequest /\ validated = -1

\* A buy that is applied without the cash check of _execute_buy.
execute_buy_unchecked(trade, c, p) ==
    [cash |-> c - trade.quantity * trade.price,
     positions |-> Put(p, trade.symbol, Get(p, trade.symbol, 0) + trade.quantity),
     ok |-> TRUE]

\* A buy that debits the 1% fee buffer along with the cost.
execute_buy_debits_buffer(trade, c, p) ==
    LET cost == (trade.quantity * trade.price * FEE_BUFFER_PCT) \div 100
    IN IF cost <= c
       THEN [cash |-> c - cost,
             positions |-> Put(p, trade.symbol,
                               Get(p, trade.symbol, 0) + trade.quantity),
             ok |-> TRUE]
       ELSE [cash |-> c, positions |-> p, ok |-> FALSE]

\* _execute_buy: the new (cash, positions), and whether the buy went through.
_execute_buy(trade, c, p) ==
    LET cost == trade.quantity * trade.price
    IN IF cost <= c
       THEN [cash |-> c - cost,
             positions |-> Put(p, trade.symbol,
                               Get(p, trade.symbol, 0) + trade.quantity),
             ok |-> TRUE]
       ELSE [cash |-> c, positions |-> p, ok |-> FALSE]

\* A sell that keeps the symbol as a key when its count reaches 0.
execute_sell_keeps_key(trade, c, p) ==
    LET current_position == Get(p, trade.symbol, 0)
    IN IF current_position >= trade.quantity
       THEN [cash |-> c + trade.quantity * trade.price,
             positions |-> Put(p, trade.symbol, p[trade.symbol] - trade.quantity),
             ok |-> TRUE]
       ELSE [cash |-> c, positions |-> p, ok |-> FALSE]

\* A sell that, short of shares, sells what is held instead of refusing.
execute_sell_clamped(trade, c, p) ==
    LET current_position == Get(p, trade.symbol, 0)
        q == IF current_position >= trade.quantity
             THEN trade.quantity ELSE current_position
    IN IF q > 0
       THEN [cash |-> c + q * trade.price,
             positions |-> IF current_position = q
                           THEN Del(p, trade.symbol)
                           ELSE Put(p, trade.symbol, current_position - q),
             ok |-> TRUE]
       ELSE [cash |-> c, positions |-> p, ok |-> FALSE]

\* _execute_sell: the new (cash, positions), and whether the sell went through.
_execute_sell(trade, c, p) ==
    LET current_position == Get(p, trade.symbol, 0)
    IN IF current_position >= trade.quantity
       THEN LET proceeds == trade.quantity * trade.price
                left == p[trade.symbol] - trade.quantity
            IN [cash |-> c + proceeds,
                positions |-> IF left = 0
                              THEN Del(p, trade.symbol)
                              ELSE Put(p, trade.symbol, left),
                ok |-> TRUE]
       ELSE [cash |-> c, positions |-> p, ok |-> FALSE]

\* Recorded snapshots that share the live positions dict instead of holding
\* a copy: an in-place change of the dict shows in every one of them.
RecordedAfter_shared(history, p) ==
    [i \in 1..Len(history) |-> [history[i] EXCEPT !.positions = p]]

\* The recorded snapshots once _execute_buy / _execute_sell have changed
\* self.positions in place to p: each snapshot was built from
\* self.positions.copy(), so none of them sees the change.
RecordedAfter(history, p) == history

\* execute_trades(trades, date): the call itself; the loop body runs in
\* ExecuteBuy / ExecuteSell, one iteration per step.
ExecuteTrades(trades) ==
    /\ pending = <<>>
    /\ Len(trade_history) + Len(trades) <= MaxTrades
    /\ pending' = trades
    /\ UNCHANGED <<initial_capital, cash, positions, trade_history,
                   portfolio_history, executed>>
    /\ UNCHANGED <<valVars, dataVars, runVars, metVars>>

\* One iteration of the loop of execute_trades on a BUY order.
ExecuteBuy ==
    /\ pending /= <<>>
    /\ Head(pending).action = "BUY"
    /\ LET trade == Head(pending)
           r == _execute_buy(trade, cash, positions)
       IN /\ cash' = r.cash
          /\ positions' = r.positions
          /\ portfolio_history' = RecordedAfter(portfolio_history, r.positions)
          /\ executed' = Append(executed, r.ok)
          /\ trade_history' = Append(trade_history, trade)
    /\ pending' = Tail(pending)
    /\ UNCHANGED initial_capital
    /\ UNCHANGED <<valVars, dataVars, runVars, metVars>>

\* One iteration of the loop of execute_trades on a SELL order.
ExecuteSell ==
    /\ pending /= <<>>
    /\ Head(pending).action = "SELL"
    /\ LET trade == Head(pending)
           r == _execute_sell(trade, cash, positions)
       IN /\ cash' = r.cash
          /\ positions' = r.positions
          /\ portfolio_history' = RecordedAfter(portfolio_history, r.positions)
          /\ executed' = Append(executed, r.ok)
          /\ trade_history' = Append(trade_history, trade)
    /\ pending' = Tail(pending)
    /\ UNCHANGED initial_capital
    /\ UNCHANGED <<valVars, dataVars, runVars, metVars>>

RECURSIVE SumValue_priced_anyway(_, _, _)
\* A held symbol missing from the prices is valued at 50 a share, not at 0.
SumValue_priced_anyway(p, prices, S) ==
    IF S = {} THEN 0
    ELSE LET s == CHOOSE x \in S : TRUE
         IN p[s] * Get(prices, s, 50)
            + SumValue_priced_anyway(p, prices, S \ {s})

RECURSIVE SumValue(_, _, _)
\* sum(qty * current_prices.get(symbol, 0) for symbol, qty in positions.items())
SumValue(p, prices, S) ==
    IF S = {} THEN 0
    ELSE LET s == CHOOSE x \in S : TRUE
         IN p[s] * Get(prices, s, 0)
            + SumValue(p, prices, S \ {s})

\* A mark-to-market that records nothing when it is given no price.
update_portfolio_value_priced_only(prices, date) ==
    IF DOMAIN prices = {} THEN portfolio_history
    ELSE Append(portfolio_history,
                [cash |-> cash, positions |-> positions,
                 total_value |-> cash + SumValue(positions, prices,
                                                 DOMAIN positions),
                 date |-> date])

\* update_portfolio_value(current_prices, date): the history it leaves
update_portfolio_value(prices, date) ==
    LET positions_value == SumValue(positions, prices, DOMAIN positions)
        state == [cash |-> cash, positions |-> positions,
                  total_value |-> cash + positions_value, date |-> date]
    IN Append(portfolio_history, state)

\* A call of update_portfolio_value(current_prices, date)
UpdatePortfolioValue(prices, date) ==
    /\ pending = <<>>
    /\ Len(portfolio_history) < MaxSnapshots
    /\ portfolio_history' = update_portfolio_value(prices, date)
    /\ UNCHANGED <<initial_capital, cash, positions, trade_history,
                   executed, pending>>
    /\ UNCHANGED <<valVars, dataVars, runVars, metVars>>

\* get_current_state(date)
get_current_state(date) ==
    IF portfolio_history /= <<>>
    THEN portfolio_history[Len(portfolio_history)]
    ELSE [cash |-> cash, positions |-> positions,
          total_value |-> cash, date |-> date]

\* ------------------------------------------------------- get_trade_pnls
RECURSIVE SymbolOrder(_)
\* The keys of symbol_trades in insertion order: the symbols of the log by
\* first appearance.
SymbolOrder(log) ==
    IF log = <<>> THEN <<>>
    ELSE LET rest == SymbolOrder(SelectSeq(Tail(log),
                         LAMBDA t : t.symbol /= Head(log).symbol))
         IN <<Head(log).symbol>> \o rest

\* The P&L entries of one symbol: every sell against buys[0].
SymbolPnls(trades) ==
    LET buys == SelectSeq(trades, LAMBDA t : t.action = "BUY")
        sells == SelectSeq(trades, LAMBDA t : t.action = "SELL")
    IN IF buys = <<>> THEN <<>>
       ELSE [k \in 1..Len(sells) |->
                (sells[k].price - buys[1].price) * sells[k].quantity]

RECURSIVE PnlsOver(_, _)
PnlsOver(order, log) ==
    IF order = <<>> THEN <<>>
    ELSE SymbolPnls(SelectSeq(log, LAMBDA t : t.symbol = Head(order)))
         \o PnlsOver(Tail(order), log)

\* get_trade_pnls()
get_trade_pnls == PnlsOver(SymbolOrder(trade_history), trade_history)

\* ---------------------------------------------------------------- DataLoader
\* What mcp.execute_tool("get_stock_prices", ...) does: it raises, or it
\* returns a list of bars.
Raised == [raised |-> TRUE, bars |-> <<>>]
Returned(bars) == [raised |-> FALSE, bars |-> bars]

\* What mcp.execute_tool("get_financial_metrics", ...) does: it raises, or it
\* returns a value that is stored as it is ("None" stands for no metrics).
MetricsAnswers == {"raise", "metrics"}

\* No load_all_data call was made yet.
NoProvider == [symbols |-> EmptyDict, benchmark |-> Returned(<<>>)]

\* __init__
DataInit ==
    /\ price_data = EmptyDict
    /\ window = [symbol |-> "-", end_date |-> 0, lookback_days |-> 0,
                 bars |-> <<>>]
    /\ current_prices = [date |-> 0, prices |-> EmptyDict]
    /\ financial_data = EmptyDict
    /\ provider = NoProvider

\* The StockData list a provider returns for a symbol: bars in any date
\* order, the i-th with close 10 * i, so that a close tells which bar it is.
BarsOf(symbol, dates) ==
    [i \in 1..Len(dates) |->
        [symbol |-> symbol, date |-> dates[i], close |-> 10 * i]]

DateSeqs == UNION {[1..n -> 1..MaxDate] : n \in 0..MaxBars}

\* A load that gives up at the first symbol whose fetch raises: the symbols
\* after it in self.symbols are left without data.
load_all_data_stops_at_failure(answers) ==
    LET Failed(s) == answers.symbols[s].prices.raised
                        \/ answers.symbols[s].metrics = "raise"
        Index(s) == CHOOSE i \in 1..Len(SymbolList) : SymbolList[i] = s
        Reached(s) == \A i \in 1..(Index(s) - 1) : ~Failed(SymbolList[i])
        Stored(s) == Reached(s) /\ ~Failed(s)
    IN [price_data |->
            [s \in Symbols |-> IF Stored(s)
                               THEN answers.symbols[s].prices.bars ELSE <<>>],
        financial_data |->
            [s \in Symbols |-> IF Stored(s)
                               THEN answers.symbols[s].metrics ELSE "None"],
        benchmark_data |->
            IF answers.benchmark.raised \/ \E s \in Symbols : Failed(s)
            THEN <<>> ELSE answers.benchmark.bars]

\* The body of "for symbol in symbols" in load_all_data: the two fetches sit
\* in one try block, whose handler empties both entries of the symbol.
load_symbol(answer) ==
    IF answer.prices.raised \/ answer.metrics = "raise"
    THEN [price_data |-> <<>>, financial_data |-> "None"]
    ELSE [price_data |-> answer.prices.bars, financial_data |-> answer.metrics]

\* load_all_data(symbols, start_date, end_date, benchmark): what it leaves
\* in price_data, financial_data and benchmark_data.
load_all_data(answers) ==
    [price_data |->
        [s \in Symbols |-> load_symbol(answers.symbols[s]).price_data],
     financial_data |->
        [s \in Symbols |-> load_symbol(answers.symbols[s]).financial_data],
     benchmark_data |->
        IF answers.benchmark.raised THEN <<>> ELSE answers.benchmark.bars]

\* The answers of a provider that raises nowhere and has metrics for every
\* symbol: the bars dated as given, and no benchmark bar.
AllReturned(dates) ==
    [symbols |-> [s \in Symbols |->
                    [prices |-> Returned(BarsOf(s, dates[s])),
                     metrics |-> "metrics"]],
     benchmark |-> Returned(<<>>)]

\* load_all_data: the price series of every symbol are stored as returned.
LoadAllData(dates) ==
    /\ DOMAIN price_data = {}
    /\ provider' = AllReturned(dates)
    /\ price_data' = load_all_data(AllReturned(dates)).price_data
    /\ financial_data' = load_all_data(AllReturned(dates)).financial_data
    /\ UNCHANGED <<window, current_prices, simVars, valVars, runVars, metVars>>

\* seq[-n:] for n >= 0 (seq[-0:] is the whole list)
PySuffix(seq, n) ==
    IF n = 0 \/ n >= Len(seq) THEN seq
    ELSE SubSeq(seq, Len(seq) - n + 1, Len(seq))

\* The date filter is left out.
get_price_data_unfiltered(symbol, end_date, lookback_days) ==
    LET all_data == Get(price_data, symbol, <<>>)
    IN IF Len(all_data) > lookback_days
       THEN PySuffix(all_data, lookback_days)
       ELSE all_data

\* get_price_data(symbol, end_date, lookback_days)
get_price_data(symbol, end_date, lookback_days) ==
    LET all_data == Get(price_data, symbol, <<>>)
        filtered == SelectSeq(all_data, LAMBDA d : d.date <= end_date)
    IN IF Len(filtered) > lookback_days
       THEN PySuffix(filtered, lookback_days)
       ELSE filtered

\* A price map built from the bars dated exactly on the date only.
get_current_prices_exact_date(date) ==
    LET Data(s) == SelectSeq(Get(price_data, s, <<>>),
                             LAMBDA d : d.date = date)
        priced == {s \in Symbols : Data(s) /= <<>>}
    IN [s \in priced |-> Data(s)[Len(Data(s))].close]

\* _get_current_prices(date)
_get_current_prices(date) ==
    LET Data(s) == get_price_data(s, date, PRICE_LOOKBACK)
        priced == {s \in Symbols : Data(s) /= <<>>}
    IN [s \in priced |-> Data(s)[Len(Data(s))].close]

\* run_backtest loads the data before it asks for any price.
Loaded == DOMAIN price_data /= {}

\* A call of get_price_data.
GetPriceData(symbol, end_date, lookback_days) ==
    /\ Loaded
    /\ window' = [symbol |-> symbol, end_date |-> end_date,
                  lookback_days |-> lookback_days,
                  bars |-> get_price_data(symbol, end_date, lookback_days)]
    /\ UNCHANGED <<price_data, current_prices, financial_data, provider,
                   simVars, valVars, runVars, metVars>>

\* The price history _gather_analyst_signals hands to the analysts.
GatherPriceHistory(symbol, date) ==
    GetPriceData(symbol, date, ANALYST_LOOKBACK)

\* A call of _get_current_prices.
GetCurrentPrices(date) ==
    /\ Loaded
    /\ current_prices' = [date |-> date, prices |-> _get_current_prices(date)]
    /\ UNCHANGED <<price_data, window, financial_data, provider,
                   simVars, valVars, runVars, metVars>>

\* The data loader on its own: one load, then queries as of any date.
InitData == SimInit(0) /\ ValInit /\ DataInit /\ RunInit /\ MetInit

NextData ==
    \/ \E dates \in [Symbols -> DateSeqs] : LoadAllData(dates)
    \/ \E symbol \in Symbols, end_date \in 1..MaxDate,
          lookback_days \in 0..MaxLookback :
            GetPriceData(symbol, end_date, lookback_days)
    \/ \E symbol \in Symbols, date \in 1..MaxDate :
            GatherPriceHistory(symbol, date)
    \/ \E date \in 1..MaxDate : GetCurrentPrices(date)

SpecData == InitData /\ [][NextData]_vars

\* --------------------------------------------------------- PortfolioManager
\* Each step of _validate_buy_order yields the quantity it lets through and
\* whether it ends the call with "return 0".

\* "Check if we have enough cash (with 1% buffer for fees/slippage)"
CheckCash(quantity, price, ps) ==
    LET cost == quantity * price
    IN IF cost * FEE_BUFFER_PCT > ps.cash * 100
       THEN LET max_quantity == Trunc(ps.cash * 100, FEE_BUFFER_PCT * price)
            IN IF max_quantity <= 0
               THEN [ret0 |-> TRUE, quantity |-> 0]
               ELSE [ret0 |-> FALSE, quantity |-> max_quantity]
       ELSE [ret0 |-> FALSE, quantity |-> quantity]

\* The position is sized up to the cap whatever was asked for.
CheckMaxPosition_sized_to_cap(symbol, quantity, price, ps) ==
    LET available100 == ps.total_value * MAX_POSITION_SIZE_PCT
                        - 100 * Get(ps.positions, symbol, 0) * price
    IN IF available100 <= 0
       THEN [ret0 |-> TRUE, quantity |-> 0]
       ELSE [ret0 |-> FALSE, quantity |-> Trunc(available100, 100 * price)]

\* The shares already held are left out of the position's value.
CheckMaxPosition_ignores_held(symbol, quantity, price, ps) ==
    LET cost == quantity * price
        max_position_value100 == ps.total_value * MAX_POSITION_SIZE_PCT
    IN IF cost * 100 > max_position_value100
       THEN IF max_position_value100 <= 0
            THEN [ret0 |-> TRUE, quantity |-> 0]
            ELSE [ret0 |-> FALSE,
                  quantity |-> Min(quantity,
                                   Trunc(max_position_value100, 100 * price))]
       ELSE [ret0 |-> FALSE, quantity |-> quantity]

\* "Check max position size constraint"
CheckMaxPosition(symbol, quantity, price, ps) ==
    LET cost == quantity * price
        max_position_value100 == ps.total_value * MAX_POSITION_SIZE_PCT
        current_position_value == Get(ps.positions, symbol, 0) * price
    IN IF (current_position_value + cost) * 100 > max_position_value100
       THEN LET available100 == max_position_value100
                                - 100 * current_position_value
            IN IF available100 <= 0
               THEN [ret0 |-> TRUE, quantity |-> 0]
               ELSE [ret0 |-> FALSE,
                     quantity |-> Min(quantity, Trunc(available100, 100 * price))]
       ELSE [ret0 |-> FALSE, quantity |-> quantity]

\* The reduced quantity is computed without the fee buffer.
CheckCashReserve_no_buffer(quantity, price, ps) ==
    LET min_cash_reserve100 == ps.total_value * CASH_RESERVE_PCT
        remaining_cash100 == ps.cash * 100 - quantity * price * FEE_BUFFER_PCT
    IN IF remaining_cash100 < min_cash_reserve100
       THEN LET available_cash100 == ps.cash * 100 - min_cash_reserve100
            IN IF available_cash100 <= 0
               THEN [ret0 |-> TRUE, quantity |-> 0]
               ELSE [ret0 |-> FALSE,
                     quantity |-> Min(quantity,
                                      Trunc(available_cash100, 100 * price))]
       ELSE [ret0 |-> FALSE, quantity |-> quantity]

\* "Check cash reserve constraint"
CheckCashReserve(quantity, price, ps) ==
    LET min_cash_reserve100 == ps.total_value * CASH_RESERVE_PCT
        remaining_cash100 == ps.cash * 100 - quantity * price * FEE_BUFFER_PCT
    IN IF remaining_cash100 < min_cash_reserve100
       THEN LET available_cash100 == ps.cash * 100 - min_cash_reserve100
            IN IF available_cash100 <= 0
               THEN [ret0 |-> TRUE, quantity |-> 0]
               ELSE [ret0 |-> FALSE,
                     quantity |-> Min(quantity,
                                      Trunc(available_cash100,
                                            FEE_BUFFER_PCT * price))]
       ELSE [ret0 |-> FALSE, quantity |-> quantity]

\* _validate_buy_order(symbol, quantity, price, portfolio_state)
_validate_buy_order(symbol, quantity, price, ps) ==
    LET s1 == CheckCash(quantity, price, ps)
    IN IF s1.ret0 THEN 0
       ELSE LET s2 == CheckMaxPosition(symbol, s1.quantity, price, ps)
            IN IF s2.ret0 THEN 0
               ELSE LET s3 == CheckCashReserve(s2.quantity, price, ps)
                    IN IF s3.ret0 THEN 0 ELSE Max(0, s3.quantity)

\* The desired quantity is passed through unclamped when shares are held.
validate_sell_order_unclamped(symbol, quantity, ps) ==
    IF Get(ps.positions, symbol, 0) = 0 THEN 0 ELSE quantity

\* _validate_sell_order(symbol, quantity, portfolio_state)
_validate_sell_order(symbol, quantity, ps) ==
    LET current_position == Get(ps.positions, symbol, 0)
    IN IF current_position = 0 THEN 0
       ELSE Min(quantity, current_position)

\* The portfolio states explored by the validator calls: cash >= 0 and
\* total_value >= cash, as every snapshot the simulator builds has; the
\* shares held are of X.
ValidatorStates ==
    {[cash |-> c, total_value |-> c + o, date |-> 1,
      positions |-> IF h = 0 THEN EmptyDict ELSE [x \in {"X"} |-> h]] :
        c \in 0..MaxCash, o \in 0..MaxOther, h \in 0..MaxHeld}

ValidatorRequests ==
    [symbol : Symbols, action : {"BUY", "SELL"}, quantity : 0..MaxQty,
     price : 1..MaxPrice, portfolio_state : ValidatorStates]

\* A call of _validate_buy_order.
ValidateBuy ==
    /\ request.action = "BUY"
    /\ validated = -1
    /\ validated' = _validate_buy_order(request.symbol, request.quantity,
                                        request.price, request.portfolio_state)
    /\ UNCHANGED <<request, simVars, dataVars, runVars, metVars>>

\* A call of _validate_sell_order.
ValidateSell ==
    /\ request.action = "SELL"
    /\ validated = -1
    /\ validated' = _validate_sell_order(request.symbol, request.quantity,
                                         request.portfolio_state)
    /\ UNCHANGED <<request, simVars, dataVars, runVars, metVars>>

\* The validators on their own, over every request of ValidatorRequests.
InitValidate ==
    /\ SimInit(0)
    /\ DataInit
    /\ RunInit
    /\ MetInit
    /\ request \in ValidatorRequests
    /\ validated = -1

NextValidate == ValidateBuy \/ ValidateSell

SpecValidate == InitValidate /\ [][NextValidate]_vars

\* ------------------------------------------- decide_trades and its caller
\* The quantities the portfolio decision may ask for, and the capital of
\* the runs explored.
DecisionQuantities == {0, 100, 150}
DecisionCapitals == {100000}

\* decide_trades from the parsed decision on (action, quantity), followed by
\* the caller's "if trades: execute_trades(trades, date)".  The validators
\* are called only for a BUY or SELL with quantity > 0; an order is emitted
\* only for a validated quantity > 0.
DecideTrades(symbol, action, quantity, current_price) ==
    /\ pending = <<>>
    /\ Len(trade_history) < MaxDecided
    /\ LET portfolio_state == get_current_state(Len(portfolio_history) + 1)
           called == action \in {"BUY", "SELL"} /\ quantity > 0
           validated_quantity ==
               IF action = "BUY"
               THEN _validate_buy_order(symbol, quantity, current_price,
                                        portfolio_state)
               ELSE _validate_sell_order(symbol, quantity, portfolio_state)
       IN IF called
          THEN /\ request' = [symbol |-> symbol, action |-> action,
                              quantity |-> quantity, price |-> current_price,
                              portfolio_state |-> portfolio_state]
               /\ validated' = validated_quantity
               /\ pending' = IF validated_quantity > 0
                             THEN <<[symbol |-> symbol, action |-> action,
                                     quantity |-> validated_quantity,
                                     price |-> current_price]>>
                             ELSE <<>>
          ELSE UNCHANGED <<request, validated, pending>>
    /\ UNCHANGED <<initial_capital, cash, positions, trade_history,
                   portfolio_history, executed, dataVars, runVars, metVars>>

\* Decisions validated against get_current_state and applied, with
\* end-of-day marks in between.
InitDecide ==
    /\ \E capital \in DecisionCapitals : SimInit(capital)
    /\ ValInit
    /\ DataInit
    /\ RunInit
    /\ MetInit

NextDecide ==
    \/ \E symbol \in Symbols, action \in SignalType,
          quantity \in DecisionQuantities, current_price \in Prices :
            DecideTrades(symbol, action, quantity, current_price)
    \/ ExecuteBuy
    \/ ExecuteSell
    \/ \E prices \in PriceMaps :
          UpdatePortfolioValue(prices, Len(portfolio_history) + 1)

SpecDecide == InitDecide /\ [][NextDecide]_vars

\* -------------------------------------------------------- PerformanceMetrics
\* Results are numpy floats: a finite value is kept as the exact fraction
\* num / den (den > 0), next to the two non-finite outcomes of a division by
\* zero, nan (0/0) and -inf (negative / 0).
Num(n, d) == [kind |-> "num", num |-> n, den |-> d]
NaN == [kind |-> "nan"]
NegInf == [kind |-> "-inf"]
PosInf == [kind |-> "inf"]

\* a <= b for finite fractions
Leq(a, b) == a.num * b.den <= b.num * a.den

\* np.maximum.accumulate(values)[i]
RECURSIVE running_max(_, _)
running_max(values, i) ==
    IF i = 1 THEN values[1]
    ELSE Max(running_max(values, i - 1), values[i])

\* (values - running_max) / running_max at index i, as numpy divides
drawdown(values, i) ==
    LET m == running_max(values, i)
        d == values[i] - m
    IN IF m = 0 THEN (IF d = 0 THEN NaN ELSE NegInf)
       ELSE IF m > 0 THEN Num(d, m)
       ELSE Num(-d, -m)

\* np.min over the first k drawdowns: nan if any is nan, else -inf if any
\* is, else the least fraction.
RECURSIVE np_min(_, _)
np_min(values, k) ==
    LET x == drawdown(values, k)
    IN IF k = 1 THEN x
       ELSE LET rest == np_min(values, k - 1)
            IN IF rest.kind = "nan" \/ x.kind = "nan" THEN NaN
               ELSE IF rest.kind = "-inf" \/ x.kind = "-inf" THEN NegInf
               ELSE IF Leq(x, rest) THEN x ELSE rest

\* max_drawdown(portfolio_values): abs(np.min(drawdowns) * 100)
max_drawdown(portfolio_values) ==
    IF Len(portfolio_values) = 0 THEN Num(0, 1)
    ELSE LET max_dd == np_min(portfolio_values, Len(portfolio_values))
         IN IF max_dd.kind = "nan" THEN NaN
            ELSE IF max_dd.kind = "-inf" THEN PosInf
            ELSE IF max_dd.num >= 0 THEN Num(max_dd.num * 100, max_dd.den)
            ELSE Num(-max_dd.num * 100, max_dd.den)

\* ---- numpy float arithmetic.  A float is m * 2^e with an odd or zero
\* integer m of at most SignificandBits bits; every operation returns the
\* exact result rounded to nearest, ties to even, as IEEE 754 does.  The
\* exponent is unbounded: no overflow or underflow at the magnitudes used.
RECURSIVE Pow2(_)
Pow2(n) == IF n = 0 THEN 1 ELSE 2 * Pow2(n - 1)

RECURSIVE BitLen(_)
BitLen(n) == IF n = 0 THEN 0 ELSE 1 + BitLen(n \div 2)

Abs(n) == IF n < 0 THEN -n ELSE n

RECURSIVE Canon(_, _)
\* The one representation of m * 2^e with m odd or zero.
Canon(m, e) ==
    IF m = 0 THEN [m |-> 0, e |-> 0]
    ELSE IF Abs(m) % 2 = 0
    THEN Canon(IF m < 0 THEN -(Abs(m) \div 2) ELSE m \div 2, e + 1)
    ELSE [m |-> m, e |-> e]

\* The float nearest to sign * (q + f) * 2^e, where 0 <= f < 1 and sticky
\* tells whether f > 0 (then q has more than SignificandBits bits).
fl(sign, q, sticky, e) ==
    LET b == BitLen(q) - SignificandBits
    IN IF b <= 0 THEN Canon(sign * q, e)
       ELSE LET top == q \div Pow2(b)
                low == q % Pow2(b)
                half == Pow2(b - 1)
                up == low > half
                      \/ (low = half /\ (sticky \/ top % 2 = 1))
            IN Canon(sign * (IF up THEN top + 1 ELSE top), e + b)

Sign(n) == IF n < 0 THEN -1 ELSE 1

f_zero == [m |-> 0, e |-> 0]

f_int(n) == fl(Sign(n), Abs(n), FALSE, 0)

\* x + y
f_add(x, y) ==
    LET e == Min(x.e, y.e)
        n == x.m * Pow2(x.e - e) + y.m * Pow2(y.e - e)
    IN fl(Sign(n), Abs(n), FALSE, e)

\* x - y
f_sub(x, y) == f_add(x, [m |-> -y.m, e |-> y.e])

\* x * y
f_mul(x, y) == fl(Sign(x.m * y.m), Abs(x.m * y.m), FALSE, x.e + y.e)

RECURSIVE ShiftFor(_, _, _)
\* The least s >= from with a * 2^s >= k * 2^SignificandBits
ShiftFor(a, k, from) ==
    IF a * Pow2(from) >= k * Pow2(SignificandBits) THEN from
    ELSE ShiftFor(a, k, from + 1)

\* x / k for an integer k > 0
f_div_int(x, k) ==
    IF x.m = 0 THEN f_zero
    ELSE LET a == Abs(x.m)
             s == ShiftFor(a, k, 0)
             q == (a * Pow2(s)) \div k
             rem == (a * Pow2(s)) % k
         IN fl(Sign(x.m), q, rem /= 0, x.e - s)

RECURSIVE SeqSum(_, _, _)
\* a[from] + ... + a[to], added one by one from the left
SeqSum(a, from, to) ==
    IF to < from THEN f_zero
    ELSE IF to = from THEN a[from]
    ELSE f_add(SeqSum(a, from, to - 1), a[to])

\* np.add.reduce over a contiguous array of fewer than 9 floats: the first
\* element plus the sum of the others taken one by one.
np_sum(a) ==
    IF Len(a) = 1 THEN a[1] ELSE f_add(a[1], SeqSum(a, 2, Len(a)))

\* np.mean(a) for a non-empty array
np_mean(a) == f_div_int(np_sum(a), Len(a))

\* np.var(a) for a non-empty array: mean(abs(a - a.mean())**2);
\* np.std(a) is its square root, zero exactly when the variance is.
np_var(a) ==
    LET arrmean == np_mean(a)
        x == [i \in 1..Len(a) |-> f_sub(a[i], arrmean)]
        sq == [i \in 1..Len(a) |-> f_mul(x[i], x[i])]
    IN f_div_int(np_sum(sq), Len(a))

\* daily_rf_rate = risk_free_rate / periods_per_year
daily_rf_rate ==
    f_div_int(f_div_int(f_int(RISK_FREE_RATE_PCT), 100),
              TRADING_DAYS_PER_YEAR)

\* returns - daily_rf_rate
excess_returns(r) == [i \in 1..Len(r) |-> f_sub(r[i], daily_rf_rate)]

\* What a ratio returns: 0.0, or np.mean(excess) / np.std(...) *
\* np.sqrt(periods_per_year), kept as the mean and the variance it is
\* computed from.
Zero == [kind |-> "zero"]
Ratio(mean, var) == [kind |-> "ratio", mean |-> mean, var |-> var]

\* sharpe_ratio(returns)
sharpe_ratio(r) ==
    IF Len(r) = 0 THEN Zero
    ELSE LET excess == excess_returns(r)
         IN IF np_var(excess) = f_zero THEN Zero
            ELSE Ratio(np_mean(excess), np_var(excess))

\* sortino_ratio(returns)
sortino_ratio(r) ==
    IF Len(r) = 0 THEN Zero
    ELSE LET excess == excess_returns(r)
             downside_returns == SelectSeq(excess, LAMBDA x : x.m < 0)
         IN IF Len(downside_returns) = 0
               \/ np_var(downside_returns) = f_zero
            THEN Zero
            ELSE Ratio(np_mean(excess), np_var(downside_returns))

\* x / y for y /= 0
f_div(x, y) ==
    f_div_int([m |-> x.m * Sign(y.m), e |-> x.e - y.e], Abs(y.m))

\* An entry of a returns array: a finite float, or nan or +-inf.
Fin(x) == [kind |-> "num", f |-> x]

\* calculate_returns(portfolio_values): np.diff(values) / values[:-1], as
\* numpy divides (x / 0 is nan for x = 0 and +-inf otherwise).
calculate_returns(portfolio_values) ==
    IF Len(portfolio_values) < 2 THEN <<>>
    ELSE [i \in 1..(Len(portfolio_values) - 1) |->
            LET prev == f_int(portfolio_values[i])
                diff == f_sub(f_int(portfolio_values[i + 1]), prev)
            IN IF prev.m = 0
               THEN (IF diff.m = 0 THEN NaN
                     ELSE IF diff.m > 0 THEN PosInf ELSE NegInf)
               ELSE Fin(f_div(diff, prev))]

AllFinite(r) == \A i \in 1..Len(r) : r[i].kind = "num"
Floats(r) == [i \in 1..Len(r) |-> r[i].f]

\* sharpe_ratio on the array calculate_returns built: with a nan or an inf
\* among the returns np.std is nan, which is not == 0, and the quotient is
\* nan.
sharpe_ratio_of(r) ==
    IF Len(r) = 0 THEN Zero
    ELSE IF AllFinite(r) THEN sharpe_ratio(Floats(r))
    ELSE NaN

\* sortino_ratio on the array calculate_returns built: excess_returns < 0
\* selects the negative finite entries and -inf, never nan or +inf.
sortino_ratio_of(r) ==
    IF Len(r) = 0 THEN Zero
    ELSE IF AllFinite(r) THEN sortino_ratio(Floats(r))
    ELSE LET finite == SelectSeq(r, LAMBDA x : x.kind = "num")
             downside_finite == SelectSeq(excess_returns(Floats(finite)),
                                          LAMBDA x : x.m < 0)
             has(k) == \E i \in 1..Len(r) : r[i].kind = k
         IN IF has("-inf") THEN NaN
            ELSE IF Len(downside_finite) = 0
                    \/ np_var(downside_finite) = f_zero
            THEN Zero
            ELSE IF has("nan") THEN NaN
            ELSE PosInf

\* The daily returns the ratios are explored on: 0, 1% and -1%.
ReturnValues ==
    {f_zero, f_div_int(f_int(1), 100), f_div_int(f_int(-1), 100)}

ReturnSeries == UNION {[1..n -> ReturnValues] : n \in 0..MaxReturns}

\* A call of sharpe_ratio.
SharpeRatio ==
    /\ metric.kind = "none"
    /\ metric' = [kind |-> "sharpe_ratio", value |-> sharpe_ratio(returns)]
    /\ UNCHANGED <<series, returns, simVars, valVars, dataVars, runVars>>

\* A call of sortino_ratio.
SortinoRatio ==
    /\ metric.kind = "none"
    /\ metric' = [kind |-> "sortino_ratio", value |-> sortino_ratio(returns)]
    /\ UNCHANGED <<series, returns, simVars, valVars, dataVars, runVars>>

\* The value series the metrics are explored on: portfolio values are cash
\* plus holdings, never negative.
ValueSeries == UNION {[1..n -> Values] : n \in 0..MaxSeries}

\* A call of max_drawdown.
MaxDrawdown ==
    /\ metric.kind = "none"
    /\ metric' = [kind |-> "max_drawdown",
                  value |-> max_drawdown(series)]
    /\ UNCHANGED <<series, returns, simVars, valVars, dataVars, runVars>>

\* The metrics on their own: one call on a value series.
InitMetrics ==
    /\ SimInit(0)
    /\ ValInit
    /\ DataInit
    /\ RunInit
    /\ \/ series \in ValueSeries /\ returns = <<>>
       \/ series = <<>> /\ returns \in ReturnSeries
    /\ metric = [kind |-> "none"]

NextMetrics ==
    \/ MaxDrawdown
    \/ SharpeRatio
    \/ SortinoRatio

SpecMetrics == InitMetrics /\ [][NextMetrics]_vars

\* ------------------------------------------------------------ run_backtest
\* The bars a provider returns for a symbol in one run, as <<date, close>>
\* in the order returned: none, one bar, bars out of date order, a close
\* that falls from one date to the next, a close of 0.
RunSeries ==
    {<<>>, <<<<1, 10>>>>, <<<<2, 10>>>>, <<<<2, 10>>, <<1, 20>>>>,
     <<<<1, 30>>, <<2, 10>>>>, <<<<1, 100>>, <<2, 10>>>>, <<<<1, 0>>>>}
RunBenchmarks == {<<>>, <<1, 2>>, <<2, 2, 1>>}
RunCapitals == {0, 1000}
RunQuantities == {0, 100}

RunBars(symbol, r) ==
    [i \in 1..Len(r) |-> [symbol |-> symbol, date |-> r[i][1],
                          close |-> r[i][2]]]

\* What the provider may answer for one symbol: the price fetch raises (the
\* metrics are then never asked for), or it returns bars and the metrics
\* fetch raises or returns.
SymbolAnswers(symbol) ==
    {[prices |-> Raised, metrics |-> "None"]}
    \cup {[prices |-> Returned(RunBars(symbol, r)), metrics |-> m] :
             r \in RunSeries, m \in MetricsAnswers}

BenchmarkAnswers ==
    {Raised} \cup {Returned(BarsOf("SPY", b)) : b \in RunBenchmarks}

RunAnswers ==
    {[symbols |-> [s \in Symbols |-> IF s = "X" THEN x ELSE y],
      benchmark |-> b] :
        x \in SymbolAnswers("X"), y \in SymbolAnswers("Y"),
        b \in BenchmarkAnswers}

RECURSIVE sorted(_)
\* sorted(set(...)): the elements of S in ascending order
sorted(S) ==
    IF S = {} THEN <<>>
    ELSE LET m == CHOOSE x \in S : \A y \in S : x <= y
         IN <<m>> \o sorted(S \ {m})

DateSet(bars) == {bars[i].date : i \in 1..Len(bars)}

\* A calendar taken from the first symbol even when the benchmark has bars.
get_trading_dates_symbols_first ==
    LET nonempty == {i \in 1..Len(SymbolList) :
                        Get(price_data, SymbolList[i], <<>>) /= <<>>}
    IN IF nonempty /= {}
       THEN LET first == CHOOSE i \in nonempty : \A j \in nonempty : i <= j
            IN sorted(DateSet(price_data[SymbolList[first]]))
       ELSE sorted(DateSet(benchmark_data))

\* get_trading_dates(): price_data.values() iterates in insertion order,
\* the order load_all_data went through self.symbols.
get_trading_dates ==
    IF benchmark_data = <<>>
    THEN LET nonempty == {i \in 1..Len(SymbolList) :
                             Get(price_data, SymbolList[i], <<>>) /= <<>>}
         IN IF nonempty = {} THEN <<>>
            ELSE LET first == CHOOSE i \in nonempty :
                                 \A j \in nonempty : i <= j
                 IN sorted(DateSet(price_data[SymbolList[first]]))
    ELSE sorted(DateSet(benchmark_data))

\* TradeOrder.__post_init__ accepts the order (it raises ValueError
\* otherwise).
TradeOrder_post_init(order) ==
    /\ order.action /= "HOLD"
    /\ order.quantity > 0
    /\ order.price > 0

\* A decide_trades that builds an order from the validator's answer even
\* when that answer is 0.
decide_trades_emits_zero(symbol, action, quantity, current_price, portfolio_state) ==
    LET Order(q) == [symbol |-> symbol, action |-> action,
                     quantity |-> q, price |-> current_price]
    IN IF action = "BUY" /\ quantity > 0
       THEN <<Order(_validate_buy_order(symbol, quantity, current_price,
                                        portfolio_state))>>
       ELSE IF action = "SELL" /\ quantity > 0
       THEN <<Order(_validate_sell_order(symbol, quantity, portfolio_state))>>
       ELSE <<>>

\* decide_trades from the parsed decision on (action, quantity): the list
\* of orders it builds; building one that TradeOrder_post_init refuses
\* raises.
decide_trades(symbol, action, quantity, current_price, portfolio_state) ==
    LET Order(q) == [symbol |-> symbol, action |-> action,
                     quantity |-> q, price |-> current_price]
    IN IF action = "BUY" /\ quantity > 0
       THEN LET v == _validate_buy_order(symbol, quantity, current_price,
                                         portfolio_state)
            IN IF v > 0 THEN <<Order(v)>> ELSE <<>>
       ELSE IF action = "SELL" /\ quantity > 0
       THEN LET v == _validate_sell_order(symbol, quantity, portfolio_state)
            IN IF v > 0 THEN <<Order(v)>> ELSE <<>>
       ELSE <<>>

\* get_trade_count()
get_trade_count == Len(trade_history)

\* get_portfolio_values()
get_portfolio_values ==
    [i \in 1..Len(portfolio_history) |-> portfolio_history[i].total_value]

\* generate_report on the simulator's results; total_return is kept as the
\* exact fraction.
generate_report ==
    LET portfolio_values == get_portfolio_values
        final_value == IF portfolio_values /= <<>>
                       THEN portfolio_values[Len(portfolio_values)]
                       ELSE initial_capital
        trade_pnls == get_trade_pnls
        returns_ == calculate_returns(portfolio_values)
    IN [kind |-> "report",
        initial_capital |-> initial_capital,
        final_value |-> final_value,
        total_return |->
            IF initial_capital > 0
            THEN Num((final_value - initial_capital) * 100, initial_capital)
            ELSE Num(0, 1),
        sharpe_ratio |-> sharpe_ratio_of(returns_),
        sortino_ratio |-> sortino_ratio_of(returns_),
        max_drawdown |-> max_drawdown(portfolio_values),
        num_trades |-> get_trade_count,
        winning_trades |->
            Cardinality({i \in 1..Len(trade_pnls) : trade_pnls[i] > 0}),
        losing_trades |->
            Cardinality({i \in 1..Len(trade_pnls) : trade_pnls[i] < 0})]

\* run_backtest, step 1: load_all_data(self.symbols, ..., benchmark="SPY")
RunLoadAllData(answers) ==
    /\ pc = "idle"
    /\ provider' = answers
    /\ price_data' = load_all_data(answers).price_data
    /\ financial_data' = load_all_data(answers).financial_data
    /\ benchmark_data' = load_all_data(answers).benchmark_data
    /\ pc' = "loaded"
    /\ UNCHANGED <<window, current_prices, trading_dates, day, sym, report,
                   events, simVars, valVars, metVars>>

\* trading_dates = get_trading_dates(); "if not trading_dates: return None"
RunGetTradingDates ==
    /\ pc = "loaded"
    /\ trading_dates' = get_trading_dates
    /\ IF get_trading_dates = <<>>
       THEN pc' = "exit" /\ report' = [kind |-> "None"] /\ day' = day
       ELSE pc' = "day" /\ report' = report /\ day' = 1
    /\ UNCHANGED <<benchmark_data, sym, events, simVars, valVars, dataVars,
                   metVars>>

\* Top of the loop body: current_prices = _get_current_prices(current_date);
\* with no price at all the date is marked with {} and the loop continues.
RunStartDay ==
    /\ pc = "day"
    /\ day <= Len(trading_dates)
    /\ LET current_date == trading_dates[day]
           prices == _get_current_prices(current_date)
       IN /\ current_prices' = [date |-> current_date, prices |-> prices]
          /\ IF DOMAIN prices = {}
             THEN /\ portfolio_history'
                        = update_portfolio_value(EmptyDict, current_date)
                  /\ events' = Append(events, [date |-> current_date,
                                                kind |-> "mark", symbol |-> "-",
                                                orders |-> 0])
                  /\ day' = day + 1
                  /\ UNCHANGED <<pc, sym>>
             ELSE /\ pc' = "symbols"
                  /\ sym' = 1
                  /\ UNCHANGED <<portfolio_history, events, day>>
    /\ UNCHANGED <<initial_capital, cash, positions, trade_history, executed,
                   pending, price_data, window, financial_data, provider,
                   benchmark_data, trading_dates, report, valVars, metVars>>

\* One iteration of "for symbol in self.symbols": a symbol missing from
\* current_prices is passed over; otherwise signals are gathered (signalled
\* tells whether any analyst answered), the portfolio manager decides on
\* (action, quantity) against get_current_state and the orders, if any, go
\* to execute_trades, whose loop runs in ExecuteBuy / ExecuteSell.  The
\* arguments and the answer of the validator call, if one is made, are kept
\* in request and validated.
RunSymbol(signalled, action, quantity) ==
    /\ pc = "symbols"
    /\ sym <= Len(SymbolList)
    /\ pending = <<>>
    /\ LET symbol == SymbolList[sym]
           current_date == trading_dates[day]
       IN IF symbol \notin DOMAIN current_prices.prices
          THEN UNCHANGED <<window, events, pending, valVars, pc, report>>
          ELSE LET portfolio_state == get_current_state(current_date)
                   current_price == current_prices.prices[symbol]
                   trades == IF signalled
                             THEN decide_trades(symbol, action, quantity,
                                                current_price, portfolio_state)
                             ELSE <<>>
                   raises == \E i \in 1..Len(trades) :
                                 ~TradeOrder_post_init(trades[i])
                   called == signalled /\ action \in {"BUY", "SELL"}
                                /\ quantity > 0
               IN /\ window' = [symbol |-> symbol, end_date |-> current_date,
                                lookback_days |-> ANALYST_LOOKBACK,
                                bars |-> get_price_data(symbol, current_date,
                                                        ANALYST_LOOKBACK)]
                  /\ events' = Append(events,
                                      [date |-> current_date,
                                       kind |-> "analyse", symbol |-> symbol,
                                       orders |-> IF raises THEN 0
                                                  ELSE Len(trades)])
                  /\ pending' = IF raises THEN <<>> ELSE trades
                  /\ IF raises
                     THEN pc' = "raised" /\ report' = [kind |-> "ValueError"]
                     ELSE UNCHANGED <<pc, report>>
                  /\ IF called
                     THEN /\ request' = [symbol |-> symbol, action |-> action,
                                         quantity |-> quantity,
                                         price |-> current_price,
                                         portfolio_state |-> portfolio_state]
                          /\ validated' =
                                IF action = "BUY"
                                THEN _validate_buy_order(symbol, quantity,
                                         current_price, portfolio_state)
                                ELSE _validate_sell_order(symbol, quantity,
                                         portfolio_state)
                     ELSE UNCHANGED valVars
    /\ sym' = sym + 1
    /\ UNCHANGED <<initial_capital, cash, positions, trade_history,
                   portfolio_history, executed, price_data, current_prices,
                   financial_data, provider, benchmark_data, trading_dates,
                   day, metVars>>

\* End of the loop body: update_portfolio_value(current_prices, date)
RunEndDay ==
    /\ pc = "symbols"
    /\ sym > Len(SymbolList)
    /\ pending = <<>>
    /\ portfolio_history'
          = update_portfolio_value(current_prices.prices, trading_dates[day])
    /\ events' = Append(events, [date |-> trading_dates[day],
                                  kind |-> "mark", symbol |-> "-",
                                  orders |-> 0])
    /\ day' = day + 1
    /\ pc' = "day"
    /\ sym' = 0
    /\ UNCHANGED <<initial_capital, cash, positions, trade_history, executed,
                   pending, benchmark_data, trading_dates, report, valVars,
                   dataVars, metVars>>

\* benchmark_values, the benchmark's closes aligned with the trading dates
\* (0 for a date without a benchmark bar); the scaling to the initial
\* capital, which changes no length, is left out.
benchmark_values ==
    IF benchmark_data = <<>> THEN <<>>
    ELSE [i \in 1..Len(trading_dates) |->
            LET at == {k \in 1..Len(benchmark_data) :
                          benchmark_data[k].date = trading_dates[i]}
            IN IF at = {} THEN 0
               ELSE benchmark_data[CHOOSE k \in at : \A j \in at : j <= k].close]

\* After the loop: report = generate_report(...), then the benchmark's
\* return (benchmark_values[-1] - initial_capital) / initial_capital, a
\* division of Python floats that raises ZeroDivisionError on 0, then
\* "return report".
RunReport ==
    /\ pc = "day"
    /\ day > Len(trading_dates)
    /\ IF Len(benchmark_values) > 1 /\ initial_capital = 0
       THEN report' = [kind |-> "ZeroDivisionError"] /\ pc' = "raised"
       ELSE report' = generate_report /\ pc' = "done"
    /\ UNCHANGED <<benchmark_data, trading_dates, day, sym, events, simVars,
                   valVars, dataVars, metVars>>

\* One call of run_backtest on a freshly built orchestrator.
InitRun ==
    /\ \E capital \in RunCapitals : SimInit(capital)
    /\ ValInit
    /\ DataInit
    /\ RunInit
    /\ MetInit

NextRun ==
    \/ \E answers \in RunAnswers : RunLoadAllData(answers)
    \/ RunGetTradingDates
    \/ RunStartDay
    \/ \E signalled \in BOOLEAN, action \in SignalType,
          quantity \in RunQuantities :
            RunSymbol(signalled, action, quantity)
    \/ ExecuteBuy
    \/ ExecuteSell
    \/ RunEndDay
    \/ RunReport

\* The loop over the trading dates is over: RunReport is the one step left.
LoopOver == pc = "day" /\ day > Len(trading_dates)

\* RunReport as the program counter sees it: the run returns or raises.
RunReturns == LoopOver /\ pc' \in {"done", "raised"}

\* The program is single-threaded and every step of the run returns: the
\* run keeps taking its next step until it has returned.  The last step is
\* always possible once the loop is over, and is named by what it does to
\* the program counter.
SpecRun ==
    /\ InitRun
    /\ [][NextRun]_vars
    /\ WF_vars(~LoopOver /\ NextRun)
    /\ WF_pc(RunReturns)

Init ==
    /\ \E capital \in InitialCapitals : SimInit(capital)
    /\ ValInit
    /\ DataInit
    /\ RunInit
    /\ MetInit

Next ==
    \/ \E trades \in Batches : ExecuteTrades(trades)
    \/ ExecuteBuy
    \/ ExecuteSell
    \/ \E prices \in PriceMaps :
          UpdatePortfolioValue(prices, Len(portfolio_history) + 1)

Spec == Init /\ [][Next]_vars

\* ------------------------------------------------------------ properties
\* The step taken is one iteration of the loop of execute_trades.
LoopStep == pending /= <<>> /\ pending' = Tail(pending)

\* The order the loop is about to process cannot be executed on the live
\* ledger.
HeadUnexecutable ==
    /\ pending /= <<>>
    /\ LET t == Head(pending)
       IN \/ t.action = "BUY" /\ t.quantity * t.price > cash
          \/ t.action = "SELL" /\ t.quantity > Get(positions, t.symbol, 0)

\* Indices of the log entries of symbol s with the given action that went
\* through.
ExecutedIdx(s, a) ==
    {i \in 1..Len(trade_history) :
        /\ trade_history[i].symbol = s
        /\ trade_history[i].action = a
        /\ executed[i]}

RECURSIVE SumQty(_)
SumQty(I) ==
    IF I = {} THEN 0
    ELSE LET i == CHOOSE x \in I : TRUE
         IN trade_history[i].quantity + SumQty(I \ {i})

\* Executed buys minus executed sells of symbol s.
NetExecuted(s) == SumQty(ExecutedIdx(s, "BUY")) - SumQty(ExecutedIdx(s, "SELL"))

\* C1: cash is >= 0 in every state, between the orders of a batch included,
\* and a BUY whose quantity * price exceeds the live cash changes neither
\* cash nor positions (it is refused, not clamped).
C1_CashNeverNegative ==
    /\ [](cash >= 0)
    /\ [][(LoopStep /\ Head(pending).action = "BUY"
            /\ Head(pending).quantity * Head(pending).price > cash)
          => (cash' = cash /\ positions' = positions)]_vars

\* C1 witness: after an executed BUY a later BUY was refused for lack of cash.
C1_Witness ==
    \E i, j \in 1..Len(trade_history) :
        /\ i < j
        /\ trade_history[i].action = "BUY" /\ executed[i]
        /\ trade_history[j].action = "BUY" /\ ~executed[j]
        /\ cash >= 0 /\ cash < initial_capital

\* C2: every key of the positions map has a share count > 0, and a symbol is
\* a key exactly when its executed buys minus its executed sells are non-zero.
C2_PositionsPositive ==
    /\ \A s \in DOMAIN positions : positions[s] > 0
    /\ \A s \in Symbols : (s \in DOMAIN positions) <=> (NetExecuted(s) /= 0)

\* C2 witness: a symbol was bought and then sold down to 0, and is gone.
C2_Witness ==
    \E s \in Symbols :
        /\ ExecutedIdx(s, "BUY") /= {}
        /\ ExecutedIdx(s, "SELL") /= {}
        /\ NetExecuted(s) = 0
        /\ s \notin DOMAIN positions

\* C6: an order that cannot be executed at apply time leaves cash, positions
\* and portfolio_history unchanged, and every processed order, executable or
\* not, is appended to the trade log in submission order.
C6_SkippedOrderLogged ==
    [][LoopStep =>
        /\ trade_history' = Append(trade_history, Head(pending))
        /\ HeadUnexecutable =>
              /\ cash' = cash
              /\ positions' = positions
              /\ portfolio_history' = portfolio_history]_vars

\* C6 witness: a SELL for more shares than the positive number held was
\* skipped and logged, with a snapshot on record and an order executed after.
C6_Witness ==
    \E i, j \in 1..Len(trade_history) :
        /\ i < j
        /\ trade_history[i].action = "SELL" /\ ~executed[i]
        /\ executed[j]
        /\ portfolio_history /= <<>>

\* The bars of a symbol loaded with a date up to d.
KnownBy(symbol, d) ==
    {price_data[symbol][i] : i \in {j \in 1..Len(price_data[symbol]) :
                                       price_data[symbol][j].date <= d}}

\* C3: every bar get_price_data(symbol, D, n) returns is a loaded bar of the
\* symbol dated <= D, and every price of _get_current_prices(D) is the close
\* of such a bar; this covers the one-bar window behind the execution and
\* mark price and the 200-bar history handed to the analysts.
C3_NoLookahead ==
    /\ \A i \in 1..Len(window.bars) :
          /\ window.bars[i].date <= window.end_date
          /\ window.bars[i] \in KnownBy(window.symbol, window.end_date)
    /\ \A s \in DOMAIN current_prices.prices :
          \E b \in KnownBy(s, current_prices.date) :
              b.close = current_prices.prices[s]

\* C3 witness: bars were loaded out of date order with one dated after the
\* as-of date; the analysts' window and the price map, both as of the same
\* date, hold an earlier bar and leave the later one out.
C3_Witness ==
    \E s \in DOMAIN current_prices.prices :
        /\ window.symbol = s
        /\ window.lookback_days = ANALYST_LOOKBACK
        /\ window.end_date = current_prices.date
        /\ window.bars /= <<>>
        /\ Len(window.bars) < Len(price_data[s])
        /\ price_data[s][1].date > window.end_date

\* A call of _validate_buy_order has returned.
BuyValidated == request.action = "BUY" /\ validated >= 0

\* Quantity let through by the affordability step (0 on "return 0").
AfterCash ==
    CheckCash(request.quantity, request.price, request.portfolio_state)

\* Quantity let through by the affordability and concentration steps.
AfterMaxPosition ==
    IF AfterCash.ret0 THEN AfterCash
    ELSE CheckMaxPosition(request.symbol, AfterCash.quantity, request.price,
                          request.portfolio_state)

\* Quantity let through by all three steps.
AfterCashReserve ==
    IF AfterMaxPosition.ret0 THEN AfterMaxPosition
    ELSE CheckCashReserve(AfterMaxPosition.quantity, request.price,
                          request.portfolio_state)

\* Shares of the requested symbol held in the state given to the validator.
HeldInState == Get(request.portfolio_state.positions, request.symbol, 0)

\* C4: _validate_buy_order returns q with 0 <= q <= desired quantity, none
\* of its three steps lets through more than it was given, and the result is
\* 0 when the cash does not cover one share with its fee buffer (a fortiori
\* when cash < price).
C4_BuyNeverGrows ==
    BuyValidated =>
        /\ 0 <= validated /\ validated <= request.quantity
        /\ AfterCash.quantity <= request.quantity
        /\ AfterMaxPosition.quantity <= AfterCash.quantity
        /\ AfterCashReserve.quantity <= AfterMaxPosition.quantity
        /\ validated = AfterCashReserve.quantity
        /\ (request.portfolio_state.cash * 100 < request.price * FEE_BUFFER_PCT)
              => validated = 0
        /\ (request.portfolio_state.cash < request.price) => validated = 0

\* C4 witness: a buy that the affordability and the concentration steps both
\* shrank, with a positive result below the desired quantity.
C4_Witness ==
    /\ BuyValidated
    /\ AfterCash.quantity < request.quantity
    /\ AfterMaxPosition.quantity < AfterCash.quantity
    /\ 0 < validated /\ validated < request.quantity

\* The scenario of C5: on a fresh simulator with capital 100000 the decision
\* BUY 100 X at 50 was validated, and the order it emitted has been applied.
FirstBuyApplied ==
    /\ initial_capital = 100000
    /\ request.symbol = "X" /\ request.action = "BUY"
    /\ request.quantity = 100 /\ request.price = 50
    /\ request.portfolio_state.cash = 100000
    /\ request.portfolio_state.total_value = 100000
    /\ request.portfolio_state.positions = EmptyDict
    /\ Len(trade_history) = 1
    /\ pending = <<>>

\* C5 as claimed: the buy is validated to 100 and, applied, leaves
\* cash = 94950 and positions = {X: 100}.
C5_CashAfterFirstBuy_94950 ==
    FirstBuyApplied =>
        /\ validated = 100
        /\ trade_history = <<[symbol |-> "X", action |-> "BUY",
                              quantity |-> 100, price |-> 50]>>
        /\ executed = <<TRUE>>
        /\ cash = 94950
        /\ positions = [x \in {"X"} |-> 100]

\* C5 amended: the buy is validated to 100 and, applied, leaves
\* cash = 95000 (quantity * price is debited, the 1% buffer is not) and
\* positions = {X: 100}.
C5_CashAfterFirstBuy_95000 ==
    FirstBuyApplied =>
        /\ validated = 100
        /\ trade_history = <<[symbol |-> "X", action |-> "BUY",
                              quantity |-> 100, price |-> 50]>>
        /\ executed = <<TRUE>>
        /\ cash = 95000
        /\ positions = [x \in {"X"} |-> 100]

\* C5 witness: the scenario has run.
C5_Witness == FirstBuyApplied /\ executed = <<TRUE>> /\ Get(positions, "X", 0) = 100

\* The validator call in progress is a SELL.
SellValidated == request.action = "SELL" /\ validated >= 0

\* The request's portfolio state with another cash and total_value.
WithCash(ps, c, t) ==
    [cash |-> c, total_value |-> t, positions |-> ps.positions, date |-> ps.date]

\* C9: _validate_sell_order returns min(desired quantity, shares held in the
\* given state), 0 when none are held, whatever the state's cash and
\* total_value; and the order emitted for SELL 150 X while 100 X are held is
\* for 100 shares, its application removes X from positions and raises cash
\* by 100 * sell price.
C9_SellClampedToHeld ==
    /\ [](SellValidated =>
            /\ validated = Min(request.quantity, HeldInState)
            /\ (HeldInState = 0 => validated = 0)
            /\ \A c \in {0, 1, 100000}, t \in {0, 1, 100000} :
                  _validate_sell_order(request.symbol, request.quantity,
                                       WithCash(request.portfolio_state, c, t))
                      = validated)
    /\ [][(/\ LoopStep
            /\ SellValidated
            /\ request.symbol = "X" /\ request.quantity = 150
            /\ HeldInState = 100
            /\ Get(positions, "X", 0) = 100)
          => /\ Head(pending) = [symbol |-> "X", action |-> "SELL",
                                  quantity |-> 100, price |-> request.price]
             /\ "X" \notin DOMAIN positions'
             /\ cash' = cash + 100 * request.price]_vars

\* C9 witness: SELL 150 X was validated to 100 against the 100 shares held,
\* and the order of 100 has been applied: X is gone from positions.
C9_Witness ==
    /\ SellValidated
    /\ request.symbol = "X" /\ request.quantity = 150
    /\ HeldInState = 100
    /\ validated = 100
    /\ pending = <<>>
    /\ Len(trade_history) = 2
    /\ trade_history[2] = [symbol |-> "X", action |-> "SELL",
                           quantity |-> 100, price |-> request.price]
    /\ executed[2]
    /\ "X" \notin DOMAIN positions

\* Paying for k shares with the fee buffer keeps the cash reserve.
KeepsReserve(k) ==
    request.portfolio_state.cash * 100 - k * request.price * FEE_BUFFER_PCT
        >= request.portfolio_state.total_value * CASH_RESERVE_PCT

\* C7: a positive result keeps cash - q * price * 1.01 >= total_value *
\* CASH_RESERVE and is the largest quantity, not above the one the first two
\* steps let through, that does; when no positive quantity does, the result
\* is 0.
C7_CashReserveFloor ==
    BuyValidated =>
        LET q2 == AfterMaxPosition.quantity
        IN /\ validated > 0 =>
                /\ KeepsReserve(validated)
                /\ validated <= q2
                /\ \A k \in (validated + 1)..q2 : ~KeepsReserve(k)
           /\ (\A k \in 1..q2 : ~KeepsReserve(k)) => validated = 0

\* C7 witness: the reserve step cut a quantity the first two steps had let
\* through, down to a positive one.
C7_Witness ==
    /\ BuyValidated
    /\ 0 < validated /\ validated < AfterMaxPosition.quantity
    /\ ~KeepsReserve(AfterMaxPosition.quantity)

\* C8: after a positive result the position (held + q) * price is within
\* total_value * MAX_POSITION_SIZE, and the result is 0 when the shares held
\* already fill the cap.
C8_PositionCap ==
    BuyValidated =>
        /\ validated > 0 =>
              (HeldInState + validated) * request.price * 100
                  <= request.portfolio_state.total_value * MAX_POSITION_SIZE_PCT
        /\ (HeldInState * request.price * 100
               >= request.portfolio_state.total_value * MAX_POSITION_SIZE_PCT)
              => validated = 0

\* C8 witness: with shares already held, the concentration step cut the buy
\* down to a positive quantity.
C8_Witness ==
    /\ BuyValidated
    /\ HeldInState > 0
    /\ AfterMaxPosition.quantity < AfterCash.quantity
    /\ validated > 0

\* The pairing C10 describes: per symbol, the k-th sell with the k-th buy.
FifoSymbolPnls(trades) ==
    LET buys == SelectSeq(trades, LAMBDA t : t.action = "BUY")
        sells == SelectSeq(trades, LAMBDA t : t.action = "SELL")
        n == IF Len(buys) < Len(sells) THEN Len(buys) ELSE Len(sells)
    IN [k \in 1..n |-> (sells[k].price - buys[k].price) * sells[k].quantity]

RECURSIVE FifoPnlsOver(_, _)
FifoPnlsOver(order, log) ==
    IF order = <<>> THEN <<>>
    ELSE FifoSymbolPnls(SelectSeq(log, LAMBDA t : t.symbol = Head(order)))
         \o FifoPnlsOver(Tail(order), log)

\* C10: get_trade_pnls pairs the k-th SELL of a symbol with the earliest BUY
\* of that symbol not matched to an earlier SELL, one-to-one, so that no buy
\* is matched to more than one sell.  Stated for the logs all of whose orders
\* were executed, where the log is exactly the sequence of fills.
C10_FifoOneToOne ==
    (\A i \in 1..Len(executed) : executed[i])
        => get_trade_pnls = FifoPnlsOver(SymbolOrder(trade_history), trade_history)

\* ------------------------------------------------------------ C11, C12
\* What one share of s is worth to a mark-to-market with these prices.
MarkPrice(prices, s) == IF s \in DOMAIN prices THEN prices[s] ELSE 0

RECURSIVE HeldValue(_, _)
\* Sum over the symbols of S of the live quantity held times the mark price.
HeldValue(prices, S) ==
    IF S = {} THEN 0
    ELSE LET s == CHOOSE x \in S : TRUE
         IN (IF s \in DOMAIN positions THEN positions[s] ELSE 0)
                * MarkPrice(prices, s)
            + HeldValue(prices, S \ {s})

\* C11: a step update_portfolio_value(prices, date) appends exactly one
\* snapshot, whose cash and positions are the live ones, whose date is the
\* date given and whose total_value is cash plus, over the held symbols,
\* quantity times price with 0 for a held symbol missing from prices; live
\* cash, live positions and the trade log are left as they were.
C11_MarkToMarket ==
    [][\A prices \in PriceMaps, date \in 1..(MaxSnapshots + 1) :
          UpdatePortfolioValue(prices, date) =>
              /\ Len(portfolio_history') = Len(portfolio_history) + 1
              /\ SubSeq(portfolio_history', 1, Len(portfolio_history))
                     = portfolio_history
              /\ LET state == portfolio_history'[Len(portfolio_history')]
                 IN /\ state.cash = cash
                    /\ state.positions = positions
                    /\ state.date = date
                    /\ state.total_value = cash + HeldValue(prices, Symbols)
              /\ cash' = cash
              /\ positions' = positions
              /\ trade_history' = trade_history]_vars

\* C11 witness: a snapshot was recorded while shares were held and none of
\* the held symbols had a price, so that its total_value is the cash alone.
C11_Witness ==
    /\ portfolio_history /= <<>>
    /\ portfolio_history[1].positions /= EmptyDict
    /\ portfolio_history[1].total_value = portfolio_history[1].cash

AllCashOrLatest(date) ==
    IF portfolio_history /= <<>>
    THEN portfolio_history[Len(portfolio_history)]
    ELSE [cash |-> cash, positions |-> EmptyDict,
          total_value |-> cash, date |-> date]

\* C14: the portfolio state decide_trades is handed by get_current_state is
\* the most recently recorded snapshot when there is one, and otherwise a
\* synthetic snapshot with the live cash, no positions and total_value =
\* cash, whatever orders were applied before the first mark-to-market.
C14_CurrentState ==
    [][request' /= request =>
          request'.portfolio_state
              = AllCashOrLatest(request'.portfolio_state.date)]_vars

\* ------------------------------------------------------------------ C18
\* The loaded bars of the window's symbol dated on or before its as-of date,
\* in stored order.
Eligible ==
    SelectSeq(price_data[window.symbol],
              LAMBDA d : d.date <= window.end_date)

\* C18: get_price_data(symbol, D, n) returns exactly min(n, E) bars, E being
\* the number of loaded bars of the symbol dated <= D: the last n eligible
\* bars in stored order when E > n, all E when E <= n, none when n = 0.
C18_WindowSize ==
    window.symbol \in DOMAIN price_data =>
        LET E == Len(Eligible)
            n == window.lookback_days
            k == IF n <= E THEN n ELSE E
        IN /\ Len(window.bars) = k
           /\ window.bars = SubSeq(Eligible, E - k + 1, E)

\* ------------------------------------------------------------------ C20
\* (M[i] - V[i]) / M[i] * 100 as a fraction, for M[i] /= 0.
DrawdownPct(i) ==
    LET m == running_max(series, i)
    IN IF m > 0 THEN Num((m - series[i]) * 100, m)
       ELSE Num((series[i] - m) * 100, -m)

\* C20: max_drawdown(V) is defined and lies in 0..100; it is 0 for the empty
\* series and otherwise the largest (M[i] - V[i]) / M[i] * 100, M[i] being
\* the running maximum of V up to i.
C20_Drawdown ==
    metric.kind = "max_drawdown" =>
        /\ metric.value.kind = "num"
        /\ Leq(Num(0, 1), metric.value)
        /\ Leq(metric.value, Num(100, 1))
        /\ series = <<>> => Leq(metric.value, Num(0, 1))
        /\ series /= <<>> =>
              /\ \A i \in 1..Len(series) : running_max(series, i) /= 0
              /\ \E i \in 1..Len(series) :
                    /\ Leq(DrawdownPct(i), metric.value)
                    /\ Leq(metric.value, DrawdownPct(i))
              /\ \A i \in 1..Len(series) :
                    Leq(DrawdownPct(i), metric.value)

\* ------------------------------------------------------------------ C13
\* The number of trading dates the loop of run_backtest is through with.
DatesProcessed ==
    IF pc \in {"day", "symbols", "done", "raised"} THEN day - 1 ELSE 0

\* The position of a symbol in self.symbols.
InputIndex(symbol) == CHOOSE i \in 1..Len(SymbolList) : SymbolList[i] = symbol

\* C13: once the loop is through with the first k trading dates,
\* portfolio_history holds exactly k snapshots, dated with those k dates in
\* strictly increasing order, also when a date had no price or no trade; the
\* history only grows at its end; within a date the symbols are analysed in
\* input order and the single mark-to-market comes after them.
C13_OneSnapshotPerDate ==
    /\ [](/\ Len(portfolio_history) = DatesProcessed
          /\ \A i \in 1..Len(portfolio_history) :
                /\ portfolio_history[i].date = trading_dates[i]
                /\ i > 1 => portfolio_history[i - 1].date
                                < portfolio_history[i].date
          /\ \A i, j \in 1..Len(events) :
                i < j =>
                    /\ events[i].date <= events[j].date
                    /\ events[i].date = events[j].date =>
                          /\ events[i].kind = "analyse"
                          /\ events[j].kind = "analyse" =>
                                InputIndex(events[i].symbol)
                                    < InputIndex(events[j].symbol)
          /\ \A i \in 1..Len(portfolio_history) :
                \E j \in 1..Len(events) :
                    events[j].kind = "mark"
                        /\ events[j].date = portfolio_history[i].date)
    /\ [][portfolio_history' /= portfolio_history =>
            /\ Len(portfolio_history') = Len(portfolio_history) + 1
            /\ SubSeq(portfolio_history', 1, Len(portfolio_history))
                   = portfolio_history]_vars

\* C13 witness: a finished run over two dates, the first without any price
\* and so without analysis, the second with a symbol analysed and an order
\* applied; each date has its snapshot.
C13_Witness ==
    /\ pc = "done"
    /\ Len(trading_dates) = 2
    /\ Len(portfolio_history) = 2
    /\ events[1].kind = "mark"
    /\ \E i \in 1..Len(executed) : executed[i]

\* ------------------------------------------------------------------ C15
\* C15: on a trading date D a symbol with no loaded bar dated D is passed
\* over: no signals are gathered for it and no order for it is validated
\* or applied on D; the date is marked all the same.
C15_MissingBarSkipped ==
    /\ \A i \in 1..Len(events) :
          events[i].kind = "analyse" =>
              events[i].date \in DateSet(price_data[events[i].symbol])
    /\ Len(portfolio_history) = DatesProcessed

\* ------------------------------------------------------------------ C16
\* seq lists the distinct dates of bars in ascending order.
AscendingDatesOf(seq, bars) ==
    /\ \A i, j \in 1..Len(seq) : i < j => seq[i] < seq[j]
    /\ {seq[i] : i \in 1..Len(seq)} = DateSet(bars)

\* C16: the calendar is the distinct ascending dates of the benchmark when
\* it has a bar, otherwise those of the first symbol in load order with a
\* non-empty series, otherwise empty; with an empty calendar run_backtest
\* returns before the loop: no order applied, no snapshot recorded and no
\* PerformanceReport produced.
C16_TradingDates ==
    pc \notin {"idle", "loaded"} =>
        /\ IF benchmark_data /= <<>>
           THEN AscendingDatesOf(trading_dates, benchmark_data)
           ELSE IF price_data["X"] /= <<>>
           THEN AscendingDatesOf(trading_dates, price_data["X"])
           ELSE IF price_data["Y"] /= <<>>
           THEN AscendingDatesOf(trading_dates, price_data["Y"])
           ELSE trading_dates = <<>>
        /\ trading_dates = <<>> =>
              /\ pc = "exit"
              /\ report = [kind |-> "None"]
              /\ trade_history = <<>>
              /\ portfolio_history = <<>>
              /\ events = <<>>
        /\ pc = "exit" => trading_dates = <<>>

\* C16 witness: nothing was loaded for the benchmark nor for any symbol and
\* the run has returned None before its loop.
C16_Witness ==
    /\ pc = "exit"
    /\ benchmark_data = <<>>
    /\ \A s \in Symbols : price_data[s] = <<>>
    /\ report = [kind |-> "None"]

\* ------------------------------------------------------------------ C17
\* C17: every run of run_backtest ends by producing a PerformanceReport, a
\* run without trades, a run of HOLD decisions and a run for which no price
\* data at all was loaded included.
C17_ReportProduced == <>(report.kind = "report")

\* ------------------------------------------------------------------ C19
\* The excess returns of the call in progress.
Excess == excess_returns(returns)

AllEqual(a) == \A i, j \in 1..Len(a) : a[i] = a[j]

\* The negative excess returns, in order.
Downside == SelectSeq(Excess, LAMBDA x : x.m < 0)

\* A ratio that is exactly 0.
IsZero(v) == v.kind = "zero" \/ v.mean = f_zero

\* C19: sharpe_ratio returns exactly 0 for an empty returns array and when
\* all excess returns are equal; sortino_ratio returns exactly 0 for an
\* empty array, when no excess return is negative and when the negative
\* excess returns are all equal (a single one included); neither divides by
\* a zero standard deviation.
C19_DegenerateRatios ==
    /\ metric.kind = "sharpe_ratio" =>
          /\ (returns = <<>> \/ AllEqual(Excess)) => IsZero(metric.value)
          /\ metric.value.kind = "ratio" => metric.value.var /= f_zero
    /\ metric.kind = "sortino_ratio" =>
          /\ (returns = <<>> \/ Downside = <<>> \/ AllEqual(Downside))
                => IsZero(metric.value)
          /\ metric.value.kind = "ratio" => metric.value.var /= f_zero

\* ------------------------------------------------------------------ C21
\* The loop of run_backtest is through with every trading date and the run
\* has returned or raised after it.
LoopFinished == pc \in {"done", "raised"} /\ day > Len(trading_dates)

\* C21: a run started with initial capital 0 that gets through its trading
\* dates ends with a report whose total_return, sharpe_ratio, sortino_ratio
\* and max_drawdown are all the defined value 0: no division by zero is
\* performed on the recorded value series, whose values are all 0.
C21_ZeroCapital ==
    (initial_capital = 0 /\ LoopFinished) =>
        /\ report.kind = "report"
        /\ report.total_return = Num(0, 1)
        /\ report.sharpe_ratio = Zero
        /\ report.sortino_ratio = Zero
        /\ report.max_drawdown = Num(0, 1)

\* ------------------------------------------------------------------ C22
\* One of the two fetches made for symbol s raised.
FetchRaised(s) ==
    provider.symbols[s].prices.raised \/ provider.symbols[s].metrics = "raise"

\* C22: once load_all_data has run, a symbol for which the provider raised
\* has an empty price series and no fundamentals, every other symbol has
\* what the provider returned for it, whichever symbols failed before it,
\* and the benchmark series is what was returned, or empty when that fetch
\* raised; the run goes on past the load, and whatever it raises later is
\* not a provider failure.
C22_LoadDegrades ==
    pc /= "idle" =>
        /\ DOMAIN price_data = Symbols
        /\ DOMAIN financial_data = Symbols
        /\ \A s \in Symbols :
              IF FetchRaised(s)
              THEN price_data[s] = <<>> /\ financial_data[s] = "None"
              ELSE /\ price_data[s] = provider.symbols[s].prices.bars
                   /\ financial_data[s] = provider.symbols[s].metrics
        /\ benchmark_data = IF provider.benchmark.raised THEN <<>>
                            ELSE provider.benchmark.bars
        /\ pc = "raised" =>
              report.kind \in {"ValueError", "ZeroDivisionError"}

\* C22 witness: the price fetch of X and the benchmark fetch raised, the
\* bars of Y, loaded after X failed, are in place, and the run went on to
\* its report.
C22_Witness ==
    /\ pc = "done"
    /\ provider.symbols["X"].prices.raised
    /\ provider.benchmark.raised
    /\ price_data["X"] = <<>>
    /\ price_data["Y"] /= <<>>
    /\ report.kind = "report"

\* ------------------------------------------------------------------ C30
\* C30: once load_all_data has run, a symbol's cached price series is empty
\* only if its price fetch raised or returned no bars; when the price fetch
\* returned bars and the fundamentals fetch raised, the bars are cached as
\* returned and only the fundamentals are absent.
C30_PricesSurviveMetricsFailure ==
    pc /= "idle" =>
        \A s \in Symbols :
            /\ price_data[s] = <<>> =>
                  \/ provider.symbols[s].prices.raised
                  \/ provider.symbols[s].prices.bars = <<>>
            /\ (~provider.symbols[s].prices.raised
                  /\ provider.symbols[s].metrics = "raise") =>
                  /\ price_data[s] = provider.symbols[s].prices.bars
                  /\ financial_data[s] = "None"

\* ------------------------------------------------------------------ C23
\* What the validator of the action answers for this decision on the symbol
\* in process, against the state get_current_state returns.
ValidatorAnswer(action, quantity) ==
    LET symbol == SymbolList[sym]
        ps == get_current_state(trading_dates[day])
    IN IF action = "BUY"
       THEN _validate_buy_order(symbol, quantity,
                                current_prices.prices[symbol], ps)
       ELSE _validate_sell_order(symbol, quantity, ps)

WellFormed(order) ==
    /\ order.action \in {"BUY", "SELL"}
    /\ order.quantity > 0
    /\ order.price > 0

\* C23: every order of the trade log, and every order handed to
\* execute_trades, has action BUY or SELL, quantity > 0 and price > 0; and
\* when the decision on a symbol is HOLD, or the validator answers 0, no
\* order is emitted, nothing is raised, and cash, positions and the trade
\* log are left as they were.
C23_OnlyRealOrders ==
    /\ [](/\ \A i \in 1..Len(trade_history) : WellFormed(trade_history[i])
          /\ \A i \in 1..Len(pending) : WellFormed(pending[i]))
    /\ [][\A action \in SignalType, quantity \in RunQuantities :
            (/\ RunSymbol(TRUE, action, quantity)
             /\ SymbolList[sym] \in DOMAIN current_prices.prices
             /\ \/ action = "HOLD"
                \/ quantity > 0 /\ ValidatorAnswer(action, quantity) = 0)
            => /\ pending' = <<>>
               /\ pc' = pc /\ report' = report
               /\ cash' = cash
               /\ positions' = positions
               /\ trade_history' = trade_history]_vars

\* C23 witness: with an executed BUY on the log, a later BUY was asked for,
\* the validator answered 0 and no order came of it.
C23_Witness ==
    /\ Len(trade_history) = 1
    /\ trade_history[1].action = "BUY" /\ executed[1]
    /\ request.action = "BUY"
    /\ request.quantity > 0
    /\ validated = 0
    /\ pending = <<>>
    /\ pc = "done"

\* ------------------------------------------------------------------ C24
\* The number of orders of the log that went through.
ExecutedCount == Cardinality({i \in 1..Len(executed) : executed[i]})

\* C24: get_trade_count, and with it the num_trades of the report, is the
\* number of orders that were executed: an order skipped at apply time for
\* lack of cash or shares is not counted.
C24_CountsExecutedOnly ==
    /\ pending = <<>> => get_trade_count = ExecutedCount
    /\ report.kind = "report" => report.num_trades = ExecutedCount

\* ------------------------------------------------------------------ C25
\* The step records a mark-to-market.
Marks == Len(portfolio_history') = Len(portfolio_history) + 1

\* The loaded bars of s dated on or before d, in stored order.
BarsUpTo(s, d) == SelectSeq(price_data[s], LAMBDA b : b.date <= d)

RECURSIVE PricedValue(_, _)
\* Sum over the symbols of S of the live quantity times the price of the map.
PricedValue(prices, S) ==
    IF S = {} THEN 0
    ELSE LET s == CHOOSE x \in S : TRUE
         IN positions[s] * prices[s] + PricedValue(prices, S \ {s})

BuyExecutes ==
    /\ LoopStep
    /\ Head(pending).action = "BUY"
    /\ Head(pending).quantity * Head(pending).price <= cash

\* C26: after every BUY that executes in the run loop, the live cash is at
\* least CASH_RESERVE times the total_value of the portfolio state the order
\* was validated against.
C26_ReserveOnLiveLedger ==
    [][BuyExecutes =>
          cash' * 100 >= CASH_RESERVE_PCT * request.portfolio_state.total_value
      ]_vars

\* ------------------------------------------------------------------ C27
\* The number of orders emitted on date d so far.
RECURSIVE OrdersOn(_, _)
OrdersOn(d, k) ==
    IF k = 0 THEN 0
    ELSE (IF events[k].date = d THEN events[k].orders ELSE 0)
         + OrdersOn(d, k - 1)

\* The log entries of the orders applied on the date in process before the
\* order that is pending now.
AppliedToday ==
    LET n == OrdersOn(trading_dates[day], Len(events)) - Len(pending)
    IN (Len(trade_history) - n + 1)..Len(trade_history)

\* C27: every SELL order handed to execute_trades in the run loop is for no
\* more shares than are live in positions and is executed; an order that is
\* skipped is a BUY, and a BUY is skipped only on a date on which an order
\* of an earlier symbol was applied before it that spent cash.
C27_SellsAlwaysExecute ==
    [][LoopStep =>
          LET trade == Head(pending)
              ok == executed'[Len(executed')]
          IN /\ trade.action = "SELL" =>
                   /\ trade.quantity <= Get(positions, trade.symbol, 0)
                   /\ ok
             /\ ~ok =>
                   /\ trade.action = "BUY"
                   /\ \E i \in AppliedToday :
                         /\ trade_history[i].action = "BUY"
                         /\ executed[i]
                         /\ InputIndex(trade_history[i].symbol)
                               < InputIndex(trade.symbol)
                   /\ cash < request.portfolio_state.cash]_vars

\* C27 witness: on the second date a BUY of X was applied and then a SELL of
\* Y, validated against the snapshot of the first date, was executed.
C27_Witness ==
    /\ Len(trade_history) = 4
    /\ trade_history[3].symbol = "X" /\ trade_history[3].action = "BUY"
    /\ executed[3]
    /\ trade_history[4].symbol = "Y" /\ trade_history[4].action = "SELL"
    /\ executed[4]
    /\ request.action = "SELL"
    /\ request.portfolio_state = portfolio_history[1]
    /\ request.portfolio_state.cash /= cash - trade_history[4].quantity
                                               * trade_history[4].price

\* ------------------------------------------------------------------ C28
RECURSIVE Revalued(_, _, _)
\* Sum over the symbols of S of the quantity held in p times its price.
Revalued(p, prices, S) ==
    IF S = {} THEN 0
    ELSE LET s == CHOOSE x \in S : TRUE
         IN p[s] * prices[s] + Revalued(p, prices, S \ {s})

\* C28: an order applied at price p, executed or skipped, leaves cash plus
\* the traded symbol's shares valued at p as it was, and no other position
\* changed; the total_value recorded for a date is the cash and positions of
\* the previous snapshot (the initial capital and no position when there is
\* none) revalued at the prices of the date; and the first recorded
\* total_value is the initial capital.
C28_TradesPreserveValue ==
    /\ [][LoopStep =>
            LET trade == Head(pending)
            IN /\ cash' + Get(positions', trade.symbol, 0) * trade.price
                     = cash + Get(positions, trade.symbol, 0) * trade.price
               /\ \A s \in Symbols \ {trade.symbol} :
                     Get(positions', s, 0) = Get(positions, s, 0)]_vars
    /\ [][Marks =>
            LET prices == current_prices'.prices
                state == portfolio_history'[Len(portfolio_history')]
                held == IF portfolio_history = <<>> THEN EmptyDict
                        ELSE portfolio_history[Len(portfolio_history)].positions
                before == IF portfolio_history = <<>> THEN initial_capital
                          ELSE portfolio_history[Len(portfolio_history)].cash
            IN /\ DOMAIN held \subseteq DOMAIN prices
               /\ state.total_value
                     = before + Revalued(held, prices, DOMAIN held)]_vars
    /\ [](portfolio_history /= <<>> =>
             portfolio_history[1].total_value = initial_capital)

\* C28 witness: a finished run of two dates in which orders were executed,
\* one was skipped and the prices fell in between: the first total_value is
\* the initial capital, the second is lower.
C28_Witness ==
    /\ pc = "done"
    /\ Len(portfolio_history) = 2
    /\ \E i \in 1..Len(executed) : ~executed[i]
    /\ \E i \in 1..Len(executed) : executed[i]
    /\ portfolio_history[1].total_value = initial_capital
    /\ portfolio_history[2].total_value < portfolio_history[1].total_value

\* ------------------------------------------------------------------ C29
RECURSIVE ExecutedLog(_)
\* The first k entries of the trade log without the skipped ones.
ExecutedLog(k) ==
    IF k = 0 THEN <<>>
    ELSE IF executed[k] THEN Append(ExecutedLog(k - 1), trade_history[k])
    ELSE ExecutedLog(k - 1)

\* C29: get_trade_pnls is what it would be on the log of the executed
\* orders alone: a skipped BUY is no buy side of a pair and a skipped SELL
\* yields no entry, so that there are no more P&L entries than executed
\* SELLs.
C29_PnlsFromExecutedOnly ==
    pending = <<>> =>
        LET log == ExecutedLog(Len(trade_history))
        IN /\ get_trade_pnls = PnlsOver(SymbolOrder(log), log)
           /\ Len(get_trade_pnls)
                 <= Cardinality({i \in 1..Len(trade_history) :
                                    /\ trade_history[i].action = "SELL"
                                    /\ executed[i]})

====
